---------------------------- MODULE Spec2Model ----------------------------
(***************************************************************************)
(* Model of src/lib/construct-metadata.ts: the page metadata constructor   *)
(* and the JSON-LD structured-data builders.                               *)
(*                                                                         *)
(* Conventions.                                                            *)
(*  - A JavaScript string whose characters matter is a sequence of         *)
(*    one-character strings (<<"/", "a">> is "/a"); a string that is only  *)
(*    passed through is a TLA+ string.                                     *)
(*  - An optional value (a `?:` field, an unset environment variable) is   *)
(*    None (absent, undefined) or Some(v).  An object field the code       *)
(*    leaves out of an object literal is None in the modelled object.      *)
(*  - The two module-level objects that results refer to (CACHED_ICONS     *)
(*    and verification) are variables; a result holds a reference to       *)
(*    them (IconsRef, VerificationRef), never a copy, as in the code.      *)
(***************************************************************************)
EXTENDS Integers, Sequences, FiniteSets

VARIABLES
    appConfig,     \* the configuration object imported from @/config/appConfig
    env,           \* process.env: the two verification tokens
    CACHED_ICONS,  \* module-level icon list, built once at load
    verification,  \* module-level verification map, built once at load
    call,          \* the operation called and its arguments
    pc,            \* "called" until the operation returns, then "returned";
                   \* "idle" while the caller runs its own code
    result,        \* what the operation returned
    held           \* metadata objects a caller keeps (references to results)

vars == <<appConfig, env, CACHED_ICONS, verification, call, pc, result, held>>

moduleState == <<appConfig, env, CACHED_ICONS, verification>>

---------------------------------------------------------------------------
(* Bounds of the model                                                     *)

MaxOver == 3          \* descriptions run up to MAX_DESCRIPTION_LENGTH + MaxOver
MaxPathLen == 4       \* longest pathname given to normalizePath
MaxTokenLen == 2      \* longest verification token in the environment
MaxPriceUnits == 160  \* prices range over -MaxPriceUnits..MaxPriceUnits units
MaxRating == 1        \* rating and reviewCount range over 0..MaxRating
MaxCrumbs == 3        \* longest breadcrumb list
MaxHandleLen == 2     \* longest twitter handle (after an optional "http")
MaxSameAs == 2        \* longest sameAs list of an author
MaxFaqs == 2          \* longest FAQ list
MaxHeld == 2          \* results a caller keeps at a time
MaxPushed == 1        \* icons a caller pushes onto an icon list

---------------------------------------------------------------------------
(* Optional values and JavaScript truthiness                               *)

None == <<>>
Some(v) == <<v>>
IsSome(o) == o /= None
Get(o) == o[1]
\* a ?? b
OrElse(o, d) == IF IsSome(o) THEN Get(o) ELSE d
Opt(S) == {None} \cup {Some(v) : v \in S}

\* truthiness of an optional string kept as a character sequence
TruthyStr(o) == IsSome(o) /\ Len(Get(o)) > 0
\* truthiness of an optional opaque string
TruthyText(o) == IsSome(o) /\ Get(o) /= ""
\* truthiness of an optional number: undefined and 0 are falsy
TruthyNum(o) == IsSome(o) /\ Get(o) /= 0

---------------------------------------------------------------------------
(* String primitives (methods of String.prototype)                         *)

Min(a, b) == IF a < b THEN a ELSE b

\* all sequences over S of length at most n
SeqsUpTo(S, n) == UNION {[1..k -> S] : k \in 0..n}

IsSpace(c) == c = " "

\* String.prototype.trim
RECURSIVE TrimStart(_)
TrimStart(s) ==
    IF Len(s) > 0 /\ IsSpace(s[1]) THEN TrimStart(Tail(s)) ELSE s

RECURSIVE TrimEnd(_)
TrimEnd(s) ==
    IF Len(s) > 0 /\ IsSpace(s[Len(s)])
    THEN TrimEnd(SubSeq(s, 1, Len(s) - 1))
    ELSE s

Trim(s) == TrimEnd(TrimStart(s))

\* String.prototype.startsWith
StartsWith(s, p) == Len(s) >= Len(p) /\ SubSeq(s, 1, Len(p)) = p

\* positions at which pat occurs in s
Occurrences(s, pat) ==
    {i \in 1..(Len(s) - Len(pat) + 1) : SubSeq(s, i, i + Len(pat) - 1) = pat}

\* String.prototype.includes
Includes(s, pat) == Occurrences(s, pat) /= {}

\* String.prototype.replace with a string pattern: the first occurrence only
ReplaceFirst(s, pat, rep) ==
    IF ~Includes(s, pat) THEN s
    ELSE LET i == CHOOSE j \in Occurrences(s, pat) :
                      \A k \in Occurrences(s, pat) : j <= k
         IN  SubSeq(s, 1, i - 1) \o rep \o SubSeq(s, i + Len(pat), Len(s))

\* String.prototype.substring(0, n)
Substring0(s, n) == SubSeq(s, 1, Min(IF n < 0 THEN 0 ELSE n, Len(s)))

\* String.prototype.toUpperCase on the locale alphabet
UpperChar(c) ==
    CASE c = "e" -> "E"
      [] c = "n" -> "N"
      [] c = "r" -> "R"
      [] c = "u" -> "U"
      [] OTHER   -> c

ToUpperCase(s) == [i \in 1..Len(s) |-> UpperChar(s[i])]

Slash == <<"/">>
DoubleSlash == <<"/", "/">>
Ellipsis == <<".", ".", ".">>
Http == <<"h", "t", "t", "p">>
At == <<"@">>
TwitterPrefix ==
    <<"h", "t", "t", "p", "s", ":", "/", "/",
      "t", "w", "i", "t", "t", "e", "r", ".", "c", "o", "m", "/">>

---------------------------------------------------------------------------
(* URL resolution: new URL(ref, base).toString() for a reference that is   *)
(* a path (absolute or relative, no scheme, no leading "//", no dot        *)
(* segments) against a base that is an origin.  The path is made absolute  *)
(* and its spaces are percent-encoded.                                     *)

RECURSIVE PercentEncode(_)
PercentEncode(s) ==
    IF Len(s) = 0 THEN <<>>
    ELSE (IF s[1] = " " THEN <<"%", "2", "0">> ELSE <<s[1]>>)
         \o PercentEncode(Tail(s))

ResolveURL(ref, base) ==
    base \o PercentEncode(IF StartsWith(ref, Slash) THEN ref ELSE Slash \o ref)

---------------------------------------------------------------------------
(* Module constants                                                        *)

MAX_DESCRIPTION_LENGTH == 160

DEFAULT_CREATOR == "aifa.dev"

DEFAULT_AUTHOR ==
    [name     |-> "Roman Bolshiyanov",
     email    |-> Some("roman@aifa.dev"),
     twitter  |-> Some(<<"@", "a", "i", "f", "a", "_", "a", "g", "i">>),
     url      |-> Some("https://github.com/aifa-agi"),
     jobTitle |-> Some("Founder & Lead Developer"),
     bio      |-> Some("Full-stack developer specializing in AI-powered SaaS applications"),
     image    |-> None,
     sameAs   |-> Some(<<
        <<"h", "t", "t", "p", "s", ":", "/", "/", "g", "i", "t", "h", "u", "b", ".", "c", "o", "m", "/", "a", "i", "f", "a", "-", "a", "g", "i">>,
        <<"h", "t", "t", "p", "s", ":", "/", "/", "t", "w", "i", "t", "t", "e", "r", ".", "c", "o", "m", "/", "a", "i", "f", "a", "_", "a", "g", "i">> >>)]

---------------------------------------------------------------------------
(* Helper functions                                                        *)

\* faulty variant: an if in place of the while, one replace at most
CollapseSlashes_Once(s) == ReplaceFirst(s, DoubleSlash, Slash)
\* the while loop of normalizePath: one replace per iteration
RECURSIVE CollapseSlashes(_)
CollapseSlashes(s) ==
    IF Includes(s, DoubleSlash)
    THEN CollapseSlashes(ReplaceFirst(s, DoubleSlash, Slash))
    ELSE s

\* the number of iterations that loop makes
RECURSIVE CollapseIterations(_)
CollapseIterations(s) ==
    IF Includes(s, DoubleSlash)
    THEN 1 + CollapseIterations(ReplaceFirst(s, DoubleSlash, Slash))
    ELSE 0

\* the string the loop of normalizePath starts from
PathBeforeLoop(p) ==
    LET s == Trim(Get(p))
    IN  IF StartsWith(s, Slash) THEN s ELSE Slash \o s

normalizePath(p) ==
    IF ~TruthyStr(p) THEN Slash
    ELSE CollapseSlashes(PathBeforeLoop(p))

\* faulty variant: the cut does not leave room for the ellipsis
truncateDescription_NoRoom(desc, maxLength) ==
    IF Len(desc) <= maxLength THEN desc
    ELSE Substring0(desc, maxLength) \o Ellipsis
truncateDescription(desc, maxLength) ==
    IF Len(desc) <= maxLength THEN desc
    ELSE Substring0(desc, maxLength - 3) \o Ellipsis

---------------------------------------------------------------------------
(* Module load: the verification map and the cached icon list              *)

\* faulty variant: the token is read without trim()
TrimmedToken_NoTrim(t) == t
\* process.env.X?.trim()
TrimmedToken(t) == IF IsSome(t) THEN Some(Trim(Get(t))) ELSE None


\* the module-level verification map, as the load-time statements fill it
LoadVerification(e) ==
    LET tok == [google |-> TrimmedToken(e.google),
                yandex |-> TrimmedToken(e.yandex)]
        keys == {k \in {"google", "yandex"} :
                     TruthyStr(tok[k]) /\ Len(Get(tok[k])) > 0}
    IN  [k \in keys |-> Get(tok[k])]

\* o?.f for an optional object o
Field(o, f) == IF IsSome(o) THEN Get(o)[f] ELSE None

\* faulty variant: any defined path is pushed, the empty one too
IconConfigured_AnyString(path) == IsSome(path)
\* the guard of each icons.push: a non-empty string
IconConfigured(path) == TruthyText(path) /\ Get(path) /= ""

IconEntry(path, rel, sizes, type) ==
    IF IconConfigured(path)
    THEN << [url |-> Get(path), rel |-> rel, sizes |-> sizes, type |-> type] >>
    ELSE <<>>

\* the immediately-invoked function that builds CACHED_ICONS
LoadIcons(cfg) ==
       IconEntry(Field(cfg.icons, "faviconAny"), "icon", "any", "image/x-icon")
    \o IconEntry(Field(cfg.icons, "icon32"), "icon", "32x32", "image/png")
    \o IconEntry(Field(cfg.icons, "icon48"), "icon", "48x48", "image/png")
    \o IconEntry(Field(cfg.icons, "icon192"), "icon", "192x192", "image/png")
    \o IconEntry(Field(cfg.icons, "icon512"), "icon", "512x512", "image/png")
    \o IconEntry(Field(cfg.icons, "appleTouch"), "apple-touch-icon", "180x180",
                 "image/png")

---------------------------------------------------------------------------
(* Configuration and environment the module is loaded with                 *)

SiteUrl == <<"h", "t", "t", "p", "s", ":", "/", "/", "s", "i", "t", "e">>

\* descriptions: n characters, of two shapes
Desc(n, shape) ==
    [i \in 1..n |->
        IF shape = "dots" THEN "."
        ELSE IF i % 3 = 1 THEN "a" ELSE IF i % 3 = 2 THEN "." ELSE "b"]

DescShapes == {"dots", "mixed"}
MaxDescLen == MAX_DESCRIPTION_LENGTH + MaxOver
AllDescs == {Desc(n, sh) : n \in 0..MaxDescLen, sh \in DescShapes}

IconFields == {"faviconAny", "icon32", "icon48", "icon192", "icon512", "appleTouch"}

IconPath(f) ==
    CASE f = "faviconAny" -> "/favicon.ico"
      [] f = "icon32"     -> "/icon-32.png"
      [] f = "icon48"     -> "/icon-48.png"
      [] f = "icon192"    -> "/icon-192.png"
      [] f = "icon512"    -> "/icon-512.png"
      [] f = "appleTouch" -> "/apple-touch-icon.png"

\* every icons object: each field unset, empty or its path
IconConfigs ==
    {None} \cup
    {Some(i) : i \in {r \in [IconFields -> Opt({"", "x"})] : TRUE}}

IconsOf(choice) ==
    IF choice = None THEN None
    ELSE Some([f \in IconFields |->
                  IF Get(choice)[f] = Some("x") THEN Some(IconPath(f))
                  ELSE Get(choice)[f]])

PageDefaultsConfigs ==
    Opt([robotsIndex : Opt(BOOLEAN), robotsFollow : Opt(BOOLEAN)])

DefaultConfig ==
    [name         |-> "AIFA",
     description  |-> Desc(2, "mixed"),
     url          |-> SiteUrl,
     logo         |-> <<"/", "l">>,
     lang         |-> <<"e", "n">>,
     ogImagePath  |-> "/og.png",
     seo          |-> Some([canonicalBase |-> None, defaultLocale |-> None,
                            social |-> Some([twitter |-> Some("@aifa_agi")])]),
     og           |-> Some([type |-> None, siteName |-> None, imageWidth |-> None,
                            imageHeight |-> None, locale |-> None]),
     pageDefaults |-> None,
     icons        |-> IconsOf(Some([f \in IconFields |-> Some("x")]))]

DefaultEnv == [google |-> None, yandex |-> None]

Tokens == Opt(SeqsUpTo({" ", "g"}, MaxTokenLen))
Envs == [google : Tokens, yandex : Tokens]

\* configurations that differ from the default in one group of settings
VariedConfigs ==
         {[DefaultConfig EXCEPT !.icons = IconsOf(c)] : c \in IconConfigs}
    \cup {[DefaultConfig EXCEPT !.pageDefaults = d] : d \in PageDefaultsConfigs}
    \cup {[DefaultConfig EXCEPT !.description = Desc(n, "mixed")] :
              n \in {MAX_DESCRIPTION_LENGTH, MAX_DESCRIPTION_LENGTH + 1}}
    \cup {[DefaultConfig EXCEPT !.seo = s, !.og = o] :
              s \in {None, Some([canonicalBase |-> Some(SiteUrl \o <<"2">>),
                                 defaultLocale |-> Some(<<"r", "u">>),
                                 social |-> None])},
              o \in {None, Some([type |-> Some("article"),
                                 siteName |-> Some("Site"),
                                 imageWidth |-> Some(800),
                                 imageHeight |-> Some(400),
                                 locale |-> Some(<<"r", "u", "_", "R", "U">>)])}}

\* what the module can be loaded with: one group varied at a time
LoadInputs ==
         {[cfg |-> c, env |-> DefaultEnv] : c \in VariedConfigs}
    \cup {[cfg |-> DefaultConfig, env |-> e] : e \in Envs}

\* the state after the module's top-level statements ran
Loaded(in) ==
    /\ appConfig = in.cfg
    /\ env = in.env
    /\ verification = LoadVerification(in.env)
    /\ CACHED_ICONS = LoadIcons(in.cfg)

\* a caller has called operation c and it has not returned yet
Called(c) ==
    /\ call = c
    /\ pc = "called"
    /\ result = None
    /\ held = <<>>

---------------------------------------------------------------------------
(* constructMetadata                                                       *)

\* references to the module-level objects
IconsRef == [ref |-> "CACHED_ICONS"]
VerificationRef == [ref |-> "verification"]

\* the module-level object a reference points to, as it stands now
Deref(r) == IF r = IconsRef THEN CACHED_ICONS ELSE verification

\* variant: each result gets its own copy, icons: [...CACHED_ICONS]
IconsField_Copy(cache) == [val |-> cache]
\* icons: CACHED_ICONS -- the array itself, not a copy
IconsField(cache) == IconsRef

\* ...(Object.keys(verification).length > 0 && { verification })
VerificationField(verif) ==
    IF Cardinality(DOMAIN verif) > 0 THEN Some(VerificationRef) ELSE None

\* faulty variant: the configured default is not consulted
RobotsFlag_IgnoresConfig(no, configured) == ~no
\* !noX && (appConfig.pageDefaults?.robotsX ?? true)
RobotsFlag(no, configured) == ~no /\ OrElse(configured, TRUE)

NoArgs ==
    [title |-> None, description |-> None, image |-> None, pathname |-> None,
     locale |-> None, noIndex |-> None, noFollow |-> None]

\* the object constructMetadata returns when called with args, given the
\* module state (cfg, the icon list and the verification map as they stand)
MetadataOf(args, cfg, cache, verif) ==
    LET title       == OrElse(args.title, cfg.name)
        description == OrElse(args.description, cfg.description)
        image       == OrElse(args.image, cfg.ogImagePath)
        locale      == OrElse(args.locale,
                              OrElse(Field(cfg.seo, "defaultLocale"), cfg.lang))
        noIndex     == OrElse(args.noIndex, FALSE)
        noFollow    == OrElse(args.noFollow, FALSE)
        base        == OrElse(Field(cfg.seo, "canonicalBase"), cfg.url)
        path        == normalizePath(args.pathname)
        canonical   == ResolveURL(path, base)
        validDescription == truncateDescription(description, MAX_DESCRIPTION_LENGTH)
    IN  [title        |-> title,
         description  |-> validDescription,
         metadataBase |-> ResolveURL(<<>>, cfg.url),
         alternates   |-> [canonical |-> canonical],
         manifest     |-> "/manifest.webmanifest",
         icons        |-> IconsField(cache),
         authors      |-> << [name |-> DEFAULT_AUTHOR.name,
                              url |-> DEFAULT_AUTHOR.url] >>,
         creator      |-> DEFAULT_CREATOR,
         publisher    |-> DEFAULT_CREATOR,
         openGraph    |->
            [type        |-> OrElse(Field(cfg.og, "type"), "website"),
             title       |-> title,
             description |-> validDescription,
             url         |-> canonical,
             siteName    |-> OrElse(Field(cfg.og, "siteName"), cfg.name),
             images      |-> << [url    |-> image,
                                 width  |-> OrElse(Field(cfg.og, "imageWidth"), 1200),
                                 height |-> OrElse(Field(cfg.og, "imageHeight"), 630),
                                 alt    |-> validDescription] >>,
             locale      |-> OrElse(Field(cfg.og, "locale"),
                                    locale \o <<"_">> \o ToUpperCase(locale))],
         twitter      |->
            [card        |-> "summary_large_image",
             title       |-> title,
             description |-> validDescription,
             images      |-> <<image>>,
             creator     |-> Field(Field(cfg.seo, "social"), "twitter")],
         robots       |->
            [index  |-> RobotsFlag(noIndex, Field(cfg.pageDefaults, "robotsIndex")),
             follow |-> RobotsFlag(noFollow, Field(cfg.pageDefaults, "robotsFollow"))],
         verification |-> VerificationField(verif)]

\* constructMetadata(args) runs and returns
ConstructMetadata ==
    /\ pc = "called"
    /\ call.op = "constructMetadata"
    /\ result' = MetadataOf(call.args, appConfig, CACHED_ICONS, verification)
    /\ pc' = "returned"
    /\ UNCHANGED <<moduleState, call, held>>

\* arguments of the calls made against every configuration
SampleArgs ==
    {[NoArgs EXCEPT !.description = d, !.pathname = p,
                    !.noIndex = ni, !.noFollow = nf] :
        d \in {None, Some(Desc(MAX_DESCRIPTION_LENGTH + 1, "mixed"))},
        p \in {None, Some(<<"a", "/", "/", " ", "b">>)},
        ni \in Opt(BOOLEAN), nf \in Opt(BOOLEAN)}

\* the module loaded with any configuration, and one call of constructMetadata
Init ==
    \E in \in LoadInputs, args \in SampleArgs :
        /\ Loaded(in)
        /\ Called([op |-> "constructMetadata", args |-> args])

Next == ConstructMetadata

Spec == Init /\ [][Next]_vars

---------------------------------------------------------------------------
(* buildPersonSchema and the structured-data builders                      *)

\* if (author.f) person.g = author.f
IfTruthy(o) == IF TruthyText(o) THEN o ELSE None

\* faulty variant: an absolute URL is treated as a handle too
TwitterUrls_Always(twitter) ==
    IF TruthyStr(twitter)
    THEN << TwitterPrefix \o ReplaceFirst(Get(twitter), At, <<>>) >>
    ELSE <<>>
\* the profile URL derived from a twitter handle, as the list pushed
TwitterUrls(twitter) ==
    IF TruthyStr(twitter) /\ ~StartsWith(Get(twitter), Http)
    THEN << TwitterPrefix \o ReplaceFirst(Get(twitter), At, <<>>) >>
    ELSE <<>>

buildPersonSchema(author) ==
    LET sameAsUrls ==
            (IF IsSome(author.sameAs) THEN Get(author.sameAs) ELSE <<>>)
            \o TwitterUrls(author.twitter)
    IN  [type        |-> "Person",
         name        |-> author.name,
         url         |-> IfTruthy(author.url),
         email       |-> IfTruthy(author.email),
         image       |-> IfTruthy(author.image),
         description |-> IfTruthy(author.bio),
         jobTitle    |-> IfTruthy(author.jobTitle),
         sameAs      |-> IF Len(sameAsUrls) > 0 THEN Some(sameAsUrls) ELSE None]

\* author is one AuthorInfo ([one |-> a]) or an array of them ([many |-> as])
buildArticleSchema(args, cfg) ==
    LET authorSchema ==
            IF "many" \in DOMAIN args.author
            THEN [many |-> [i \in 1..Len(args.author.many) |->
                               buildPersonSchema(args.author.many[i])]]
            ELSE [one |-> buildPersonSchema(args.author.one)]
    IN  [context       |-> "https://schema.org",
         type          |-> "Article",
         headline      |-> args.headline,
         datePublished |-> args.datePublished,
         dateModified  |-> IF TruthyText(args.dateModified)
                           THEN Get(args.dateModified)
                           ELSE args.datePublished,
         author        |-> authorSchema,
         description   |-> IfTruthy(args.description),
         publisher     |->
            [type |-> "Organization",
             name |-> DEFAULT_CREATOR,
             logo |-> [type |-> "ImageObject",
                       url  |-> ResolveURL(cfg.logo, cfg.url)]],
         image         |-> IF TruthyText(args.image)
                           THEN Some([type |-> "ImageObject", url |-> Get(args.image)])
                           ELSE None]

buildFAQSchema(faqs) ==
    [context    |-> "https://schema.org",
     type       |-> "FAQPage",
     mainEntity |-> [i \in 1..Len(faqs) |->
                        [type |-> "Question",
                         name |-> faqs[i].question,
                         acceptedAnswer |-> [type |-> "Answer",
                                             text |-> faqs[i].answer]]]]

\* a price is a number of units of 1/PriceDenom, exact as a double
PriceDenom == 2^4

Abs(x) == IF x < 0 THEN -x ELSE x

DigitChar(d) == <<"0", "1", "2", "3", "4", "5", "6", "7", "8", "9">>[d + 1]

\* the decimal digits of a natural number
RECURSIVE Digits(_)
Digits(n) ==
    IF n < 10 THEN <<DigitChar(n)>>
    ELSE Digits(n \div 10) \o <<DigitChar(n % 10)>>

\* faulty variant: the fraction is not padded to two digits
Fraction2_Unpadded(n) == Digits(n % 100)
\* the two fraction digits of n hundredths
Fraction2(n) == <<DigitChar((n % 100) \div 10), DigitChar(n % 10)>>

\* Number.prototype.toFixed(2) of units/PriceDenom: the sign, then the
\* integer n nearest to 100 * |x| (the larger n on a tie) written with two
\* fraction digits
toFixed2(units) ==
    LET n == (200 * Abs(units) + PriceDenom) \div (2 * PriceDenom)
    IN  (IF units < 0 THEN <<"-">> ELSE <<>>)
        \o Digits(n \div 100) \o <<".">> \o Fraction2(n)

\* ...(rating && reviewCount && { aggregateRating: {...} })
aggregateRating(rating, reviewCount) ==
    IF TruthyNum(rating) /\ TruthyNum(reviewCount)
    THEN Some([type        |-> "AggregateRating",
               ratingValue |-> Get(rating),
               reviewCount |-> Get(reviewCount)])
    ELSE None

buildProductSchema(args) ==
    [context     |-> "https://schema.org",
     type        |-> "Product",
     name        |-> args.name,
     description |-> IfTruthy(args.description),
     image       |-> IfTruthy(args.image),
     brand       |-> IF TruthyText(args.brand)
                     THEN Some([type |-> "Brand", name |-> Get(args.brand)])
                     ELSE None,
     offers      |->
        [type          |-> "Offer",
         price         |-> toFixed2(args.price),
         priceCurrency |-> args.currency,
         availability  |-> "https://schema.org/InStock"],
     aggregateRating |-> aggregateRating(args.rating, args.reviewCount)]

\* faulty variant: the array index is used as the position
Position_ZeroBased(i) == i - 1
\* position: index + 1, for the element at place i of the sequence (1-based
\* here, so the array index is i - 1)
Position(i) == (i - 1) + 1

buildBreadcrumbSchema(breadcrumbs, cfg) ==
    [context         |-> "https://schema.org",
     type            |-> "BreadcrumbList",
     itemListElement |-> [i \in 1..Len(breadcrumbs) |->
                             [type     |-> "ListItem",
                              position |-> Position(i),
                              name     |-> breadcrumbs[i].name,
                              item     |-> ResolveURL(breadcrumbs[i].url, cfg.url)]]]

---------------------------------------------------------------------------
(* The functions called one at a time on bounded inputs (SpecFn)           *)

\* the return of a function that writes nothing
Return ==
    /\ pc' = "returned"
    /\ UNCHANGED <<moduleState, call, held>>

NormalizePath ==
    /\ pc = "called"
    /\ call.op = "normalizePath"
    /\ result' = normalizePath(call.args)
    /\ Return

BuildPersonSchema ==
    /\ pc = "called"
    /\ call.op = "buildPersonSchema"
    /\ result' = buildPersonSchema(call.args)
    /\ Return

BuildArticleSchema ==
    /\ pc = "called"
    /\ call.op = "buildArticleSchema"
    /\ result' = buildArticleSchema(call.args, appConfig)
    /\ Return

BuildFAQSchema ==
    /\ pc = "called"
    /\ call.op = "buildFAQSchema"
    /\ result' = buildFAQSchema(call.args)
    /\ Return

BuildProductSchema ==
    /\ pc = "called"
    /\ call.op = "buildProductSchema"
    /\ result' = buildProductSchema(call.args)
    /\ Return

BuildBreadcrumbSchema ==
    /\ pc = "called"
    /\ call.op = "buildBreadcrumbSchema"
    /\ result' = buildBreadcrumbSchema(call.args, appConfig)
    /\ Return

\* inputs
Paths == Opt(SeqsUpTo({"/", "a", " "}, MaxPathLen))

ProfileA == <<"h", "t", "t", "p", "s", ":", "/", "/", "a", ".", "e", "x", "a", "m", "p", "l", "e", "/", "m", "e">>
ProfileB == <<"h", "t", "t", "p", "s", ":", "/", "/", "b", ".", "e", "x", "a", "m", "p", "l", "e", "/", "m", "e">>

Handles == SeqsUpTo({"@", "x"}, MaxHandleLen)
TwitterValues == Opt(Handles \cup {Http \o h : h \in Handles})
SameAsValues == Opt(SeqsUpTo({ProfileA, ProfileB}, MaxSameAs))

Authors ==
    {[name |-> "A", url |-> u, email |-> e, image |-> x, jobTitle |-> x,
      bio |-> b, twitter |-> t, sameAs |-> sa] :
        u \in Opt({"", "https://a.example"}), e \in Opt({"a@a.example"}),
        x \in Opt({"x"}), b \in Opt({""}),
        t \in TwitterValues, sa \in SameAsValues}

SampleAuthors ==
    {DEFAULT_AUTHOR,
     [name |-> "B", url |-> None, email |-> None, image |-> None,
      jobTitle |-> None, bio |-> None, twitter |-> None, sameAs |-> None],
     [name |-> "C", url |-> Some(""), email |-> None, image |-> Some("/c.png"),
      jobTitle |-> None, bio |-> None, twitter |-> Some(Http \o <<"x">>),
      sameAs |-> Some(<<>>)]}

ArticleArgs ==
    {[headline |-> "H", datePublished |-> "2024-01-01", dateModified |-> dm,
      author |-> a, image |-> im, description |-> d] :
        dm \in Opt({"", "2024-02-01"}),
        a \in {[one |-> x] : x \in SampleAuthors}
              \cup {[many |-> xs] : xs \in SeqsUpTo(SampleAuthors, 2)},
        im \in Opt({"/i.png"}), d \in Opt({"d"})}

Faqs == SeqsUpTo({[question |-> "Q1", answer |-> "A1"],
                  [question |-> "Q2", answer |-> "A2"]}, MaxFaqs)

ProductExtras ==
    {[description |-> None, image |-> None, brand |-> None],
     [description |-> Some(""), image |-> Some(""), brand |-> Some("")],
     [description |-> Some("d"), image |-> Some("/p.png"), brand |-> Some("B")]}

ProductArgs ==
    {[name |-> "P", currency |-> "USD", price |-> pr, rating |-> r,
      reviewCount |-> rc, description |-> x.description, image |-> x.image,
      brand |-> x.brand] :
        pr \in (-MaxPriceUnits)..MaxPriceUnits,
        r \in Opt(0..MaxRating), rc \in Opt(0..MaxRating), x \in ProductExtras}

Crumbs ==
    {[name |-> "Home", url |-> <<"/">>],
     [name |-> "Blog", url |-> <<"/", "b", "l", "o", "g">>],
     [name |-> "Post", url |-> <<"m", "y", " ", "p", "o", "s", "t">>]}

Breadcrumbs == SeqsUpTo(Crumbs, MaxCrumbs)

DescArgs ==
    {[NoArgs EXCEPT !.description = Some(d), !.pathname = Some(<<"a">>)] :
        d \in AllDescs}

\* the calls made: one function on one of its inputs
FnCalled ==
    \/ \E a \in DescArgs : Called([op |-> "constructMetadata", args |-> a])
    \/ \E a \in Paths : Called([op |-> "normalizePath", args |-> a])
    \/ \E a \in Authors : Called([op |-> "buildPersonSchema", args |-> a])
    \/ \E a \in ArticleArgs : Called([op |-> "buildArticleSchema", args |-> a])
    \/ \E a \in Faqs : Called([op |-> "buildFAQSchema", args |-> a])
    \/ \E a \in ProductArgs : Called([op |-> "buildProductSchema", args |-> a])
    \/ \E a \in Breadcrumbs : Called([op |-> "buildBreadcrumbSchema", args |-> a])

\* the module loaded with the default configuration and one function called
\* on any of the inputs, or loaded with any configured description and
\* constructMetadata called without arguments
InitFn ==
    \/ /\ Loaded([cfg |-> DefaultConfig, env |-> DefaultEnv])
       /\ FnCalled
    \/ \E d \in AllDescs :
          /\ Loaded([cfg |-> [DefaultConfig EXCEPT !.description = d],
                     env |-> DefaultEnv])
          /\ Called([op |-> "constructMetadata", args |-> NoArgs])

NextFn ==
    \/ ConstructMetadata
    \/ NormalizePath
    \/ BuildPersonSchema
    \/ BuildArticleSchema
    \/ BuildFAQSchema
    \/ BuildProductSchema
    \/ BuildBreadcrumbSchema

SpecFn == InitFn /\ [][NextFn]_vars

---------------------------------------------------------------------------
(* A caller that keeps the objects constructMetadata returns and changes   *)
(* them afterwards (SpecCaller)                                            *)

PageIcon == [url |-> "/page.png", rel |-> "icon", sizes |-> "16x16", type |-> "image/png"]

CallerArgs == {NoArgs, [NoArgs EXCEPT !.noIndex = Some(TRUE)]}

\* the caller calls constructMetadata(args)
CallerCalls(args) ==
    /\ pc = "idle"
    /\ Len(held) < MaxHeld
    /\ call' = [op |-> "constructMetadata", args |-> args]
    /\ pc' = "called"
    /\ result' = None
    /\ UNCHANGED <<moduleState, held>>

\* the caller keeps the object returned
CallerKeeps ==
    /\ pc = "returned"
    /\ held' = Append(held, result)
    /\ result' = None
    /\ pc' = "idle"
    /\ UNCHANGED <<moduleState, call>>

\* held[i].icons.push(PageIcon): the push lands in the array the field refers to
CallerPushesIcon(i) ==
    /\ pc = "idle"
    /\ i \in 1..Len(held)
    /\ IF held[i].icons = IconsRef
       THEN /\ Len(CACHED_ICONS) < Len(LoadIcons(appConfig)) + MaxPushed
            /\ CACHED_ICONS' = Append(CACHED_ICONS, PageIcon)
            /\ UNCHANGED held
       ELSE /\ Len(held[i].icons.val) < Len(LoadIcons(appConfig)) + MaxPushed
            /\ held' = [held EXCEPT ![i].icons.val = Append(@, PageIcon)]
            /\ UNCHANGED CACHED_ICONS
    /\ call' = [op |-> "mutate", part |-> "icons", target |-> i]
    /\ UNCHANGED <<appConfig, env, verification, pc, result>>

\* held[i].verification.yandex = "y", for a result that has the field
CallerSetsVerification(i) ==
    /\ pc = "idle"
    /\ i \in 1..Len(held)
    /\ IsSome(held[i].verification)
    /\ verification' = [k \in DOMAIN verification \cup {"yandex"} |->
                           IF k = "yandex" THEN <<"y">> ELSE verification[k]]
    /\ call' = [op |-> "mutate", part |-> "verification", target |-> i]
    /\ UNCHANGED <<appConfig, env, CACHED_ICONS, pc, result, held>>

\* held[i].robots.index = false: robots is an object of this result alone
CallerSetsRobots(i) ==
    /\ pc = "idle"
    /\ i \in 1..Len(held)
    /\ held' = [held EXCEPT ![i].robots.index = FALSE]
    /\ call' = [op |-> "mutate", part |-> "robots", target |-> i]
    /\ UNCHANGED <<moduleState, pc, result>>

CallerLoadInputs ==
    {[cfg |-> [DefaultConfig EXCEPT !.icons = i], env |-> e] :
        i \in {DefaultConfig.icons, None},
        e \in {DefaultEnv, [google |-> Some(<<"g">>), yandex |-> None]}}

InitCaller ==
    \E in \in CallerLoadInputs :
        /\ Loaded(in)
        /\ call = [op |-> "load"]
        /\ pc = "idle"
        /\ result = None
        /\ held = <<>>

NextCaller ==
    \/ \E args \in CallerArgs : CallerCalls(args)
    \/ ConstructMetadata
    \/ CallerKeeps
    \/ \E i \in 1..MaxHeld : CallerPushesIcon(i)
    \/ \E i \in 1..MaxHeld : CallerSetsVerification(i)
    \/ \E i \in 1..MaxHeld : CallerSetsRobots(i)

SpecCaller == InitCaller /\ [][NextCaller]_vars

---------------------------------------------------------------------------
(* Claims about constructMetadata under every configuration (Spec)         *)

Returned(op) == pc = "returned" /\ call.op = op

Spaces(n) == [i \in 1..n |-> " "]

\* t is s without its leading and trailing spaces
IsTrimOf(t, s) ==
    /\ \E i, j \in 0..Len(s) : s = Spaces(i) \o t \o Spaces(j)
    /\ t /= <<>> => (t[1] /= " " /\ t[Len(t)] /= " ")

\* the token is set and something other than whitespace is in it
NonBlank(tok) == IsSome(tok) /\ \E i \in 1..Len(Get(tok)) : Get(tok)[i] /= " "

ConfiguredProviders == {k \in {"google", "yandex"} : NonBlank(env[k])}

\* C4: the verification field of the returned metadata is omitted when both
\* environment tokens are unset, empty or whitespace-only; otherwise it is
\* present and holds exactly the providers whose token is non-empty after
\* trimming, each mapped to its trimmed token.
C4_VerificationField ==
    Returned("constructMetadata") =>
        IF ConfiguredProviders = {}
        THEN result.verification = None
        ELSE /\ IsSome(result.verification)
             /\ DOMAIN Deref(Get(result.verification)) = ConfiguredProviders
             /\ \A k \in ConfiguredProviders :
                    IsTrimOf(Deref(Get(result.verification))[k], Get(env[k]))

\* one provider configured with a token that needed trimming, the other
\* token whitespace-only: the field holds the one provider, trimmed
C4_Witness ==
    /\ Returned("constructMetadata")
    /\ env.google = Some(<<" ", "g">>)
    /\ env.yandex = Some(<<" ">>)
    /\ IsSome(result.verification)
    /\ DOMAIN Deref(Get(result.verification)) = {"google"}
    /\ Deref(Get(result.verification))["google"] = <<"g">>

\* C7: robots.index is true unless noIndex is passed as true or the
\* configuration sets pageDefaults.robotsIndex to false; robots.follow
\* likewise with noFollow and robotsFollow; each flag depends on its own
\* argument and default only, and an argument never re-enables a flag the
\* configuration disables.
C7_RobotsFlags ==
    Returned("constructMetadata") =>
        /\ result.robots.index =
              (/\ call.args.noIndex /= Some(TRUE)
               /\ Field(appConfig.pageDefaults, "robotsIndex") /= Some(FALSE))
        /\ result.robots.follow =
              (/\ call.args.noFollow /= Some(TRUE)
               /\ Field(appConfig.pageDefaults, "robotsFollow") /= Some(FALSE))

\* the configuration disables indexing, the caller passes noIndex: false and
\* noFollow: true is not passed: index stays off, follow stays on
C7_Witness ==
    /\ Returned("constructMetadata")
    /\ Field(appConfig.pageDefaults, "robotsIndex") = Some(FALSE)
    /\ Field(appConfig.pageDefaults, "robotsFollow") = None
    /\ call.args.noIndex = Some(FALSE)
    /\ call.args.noFollow = None
    /\ result.robots.index = FALSE
    /\ result.robots.follow = TRUE

IconOrder == <<"faviconAny", "icon32", "icon48", "icon192", "icon512", "appleTouch">>

\* the path configured for icon field f is a non-empty string
NonEmptyIcon(f) ==
    /\ IsSome(Field(appConfig.icons, f))
    /\ Get(Field(appConfig.icons, f)) /= ""

\* C9: the icon list of the returned metadata is the module's one list; its
\* length is the number of icon fields configured with a non-empty path,
\* every such path appears exactly once, in the fixed order of the six
\* fields, and no entry has an empty url.
C9_IconList ==
    Returned("constructMetadata") =>
        LET icons == Deref(result.icons)
            at(f) == {i \in 1..Len(icons) : icons[i].url = Get(Field(appConfig.icons, f))}
        IN  /\ result.icons = IconsRef
            /\ Len(icons) = Cardinality({f \in IconFields : NonEmptyIcon(f)})
            /\ \A i \in 1..Len(icons) : icons[i].url /= ""
            /\ \A f \in IconFields : NonEmptyIcon(f) => Cardinality(at(f)) = 1
            /\ \A a, b \in 1..Len(IconOrder) :
                   (a < b /\ NonEmptyIcon(IconOrder[a]) /\ NonEmptyIcon(IconOrder[b]))
                   => \A i \in at(IconOrder[a]), j \in at(IconOrder[b]) : i < j

\* two of the six fields hold a path, one is the empty string, three are
\* unset: exactly two icons
C9_Witness ==
    /\ Returned("constructMetadata")
    /\ IsSome(appConfig.icons)
    /\ {f \in IconFields : NonEmptyIcon(f)} = {"icon32", "appleTouch"}
    /\ Field(appConfig.icons, "faviconAny") = Some("")
    /\ Field(appConfig.icons, "icon48") = None
    /\ Len(Deref(result.icons)) = 2
    /\ Deref(result.icons)[1].url = "/icon-32.png"
    /\ Deref(result.icons)[2].url = "/apple-touch-icon.png"

---------------------------------------------------------------------------
(* Claims about the functions on bounded inputs (SpecFn)                   *)

\* the description a call works on: the argument, or the configured one
GivenDescription == OrElse(call.args.description, appConfig.description)

\* C1: a description longer than 160 characters is returned with length at
\* most 160, ending with "..." after the first 157 characters of the input;
\* a description of 160 characters or fewer is returned unchanged.
C1_DescriptionTruncated ==
    Returned("constructMetadata") =>
        LET d == GivenDescription
            r == result.description
        IN  IF Len(d) > MAX_DESCRIPTION_LENGTH
            THEN /\ Len(r) <= MAX_DESCRIPTION_LENGTH
                 /\ Len(r) >= 3
                 /\ SubSeq(r, Len(r) - 2, Len(r)) = Ellipsis
                 /\ SubSeq(r, 1, Len(r) - 3)
                        = SubSeq(d, 1, MAX_DESCRIPTION_LENGTH - 3)
            ELSE r = d

\* a description of 161 characters passed as argument comes back with 160
C1_Witness ==
    /\ Returned("constructMetadata")
    /\ IsSome(call.args.description)
    /\ Len(Get(call.args.description)) = MAX_DESCRIPTION_LENGTH + 1
    /\ Len(result.description) = MAX_DESCRIPTION_LENGTH
    /\ result.description[MAX_DESCRIPTION_LENGTH - 3] = "a"
    /\ result.description[MAX_DESCRIPTION_LENGTH - 2] = "."

NonSlash(s) == SelectSeq(s, LAMBDA c : c /= "/")

\* C2: for a path that does not start with a slash, normalizePath returns a
\* string that starts with exactly one "/" and contains no "//" anywhere,
\* keeps the other characters of the trimmed input in order, and its
\* collapsing loop ends within as many iterations as the string is long.
C2_NormalizePath ==
    (/\ Returned("normalizePath")
     /\ IsSome(call.args)
     /\ ~StartsWith(Get(call.args), Slash)) =>
        LET s == Get(call.args)
            r == result
        IN  /\ Len(r) >= 1
            /\ r[1] = "/"
            /\ \A i \in 1..(Len(r) - 1) : ~(r[i] = "/" /\ r[i + 1] = "/")
            /\ \E i \in 1..(Len(s) + 1), j \in 0..Len(s) :
                   /\ IsTrimOf(SubSeq(s, i, j), s)
                   /\ NonSlash(r) = NonSlash(SubSeq(s, i, j))
            /\ Len(s) > 0 =>
                   CollapseIterations(PathBeforeLoop(call.args))
                       <= Len(PathBeforeLoop(call.args))

\* "a///": a slash is prepended and the run of three collapses to one
C2_Witness ==
    /\ Returned("normalizePath")
    /\ call.args = Some(<<"a", "/", "/", "/">>)
    /\ result = <<"/", "a", "/">>
    /\ CollapseIterations(PathBeforeLoop(call.args)) = 2

\* C3: buildProductSchema includes aggregateRating if and only if both rating
\* and reviewCount are provided, whatever their numeric value (0 included).
C3_AggregateRatingIffProvided ==
    Returned("buildProductSchema") =>
        (IsSome(result.aggregateRating)
            <=> (IsSome(call.args.rating) /\ IsSome(call.args.reviewCount)))

\* C5: buildBreadcrumbSchema returns as many list items as it was given
\* breadcrumbs, in the same order; the item at array index i has position
\* i + 1 and the name of breadcrumb i, so positions run 1, 2, ..., n.
C5_BreadcrumbPositions ==
    Returned("buildBreadcrumbSchema") =>
        LET items == result.itemListElement
        IN  /\ Len(items) = Len(call.args)
            /\ \A i \in 1..Len(items) :
                   /\ items[i].position = i
                   /\ items[i].name = call.args[i].name

\* Home, Blog: positions 1 and 2, each item an absolute URL
C5_Witness ==
    /\ Returned("buildBreadcrumbSchema")
    /\ Len(call.args) = 2
    /\ call.args[1].name = "Home"
    /\ call.args[2].name = "Blog"
    /\ result.itemListElement[1].position = 1
    /\ result.itemListElement[2].position = 2
    /\ result.itemListElement[1].item = SiteUrl \o <<"/">>
    /\ result.itemListElement[2].item = SiteUrl \o <<"/", "b", "l", "o", "g">>

DigitChars == {DigitChar(d) : d \in 0..9}

DigitValue(c) == CHOOSE d \in 0..9 : DigitChar(d) = c

\* the number a sequence of digits writes
RECURSIVE NumberOf(_)
NumberOf(ds) ==
    IF Len(ds) = 0 THEN 0
    ELSE 10 * NumberOf(SubSeq(ds, 1, Len(ds) - 1)) + DigitValue(ds[Len(ds)])

\* C6: offers.price is a string of one or more digits, a decimal point and
\* exactly two digits, with a leading "-" exactly for a negative price, and
\* it writes the number of hundredths nearest to the price.
C6_PriceTwoDecimals ==
    Returned("buildProductSchema") =>
        LET s == result.offers.price
            units == call.args.price
            negative == Len(s) > 0 /\ s[1] = "-"
            body == IF negative THEN Tail(s) ELSE s
            n == Len(body)
        IN  /\ negative <=> units < 0
            /\ n >= 4
            /\ body[n - 2] = "."
            /\ \A i \in 1..n : i /= n - 2 => body[i] \in DigitChars
            /\ LET hundredths ==
                       100 * NumberOf(SubSeq(body, 1, n - 3))
                       + NumberOf(SubSeq(body, n - 1, n))
               IN  2 * Abs(hundredths * PriceDenom - 100 * Abs(units))
                       <= PriceDenom

\* the price 9 is rendered "9.00"
C6_Witness ==
    /\ Returned("buildProductSchema")
    /\ call.args.price = 9 * PriceDenom
    /\ result.offers.price = <<"9", ".", "0", "0">>

\* C10: the Person object includes only fields the author has; its sameAs is
\* the author's other profile URLs in their order, followed by the URL
\* derived from the twitter handle exactly when a (non-empty) twitter value is
\* given that does not start with "http"; sameAs is omitted when that list
\* is empty.
C10_PersonSameAs ==
    Returned("buildPersonSchema") =>
        LET a == call.args
            others == IF IsSome(a.sameAs) THEN Get(a.sameAs) ELSE <<>>
            derive == /\ IsSome(a.twitter)
                      /\ Get(a.twitter) /= <<>>
                      /\ ~(/\ Len(Get(a.twitter)) >= 4
                           /\ SubSeq(Get(a.twitter), 1, 4) = <<"h", "t", "t", "p">>)
            list == IF IsSome(result.sameAs) THEN Get(result.sameAs) ELSE <<>>
        IN  /\ result.name = a.name
            /\ IsSome(result.url) => result.url = a.url
            /\ IsSome(result.email) => result.email = a.email
            /\ IsSome(result.image) => result.image = a.image
            /\ IsSome(result.description) => result.description = a.bio
            /\ IsSome(result.jobTitle) => result.jobTitle = a.jobTitle
            /\ IsSome(result.sameAs) <=> list /= <<>>
            /\ SubSeq(list, 1, Len(others)) = others
            /\ Len(list) = Len(others) + (IF derive THEN 1 ELSE 0)
            /\ derive =>
                  LET url == list[Len(list)]
                      handle == Get(a.twitter)
                  IN  /\ StartsWith(url, TwitterPrefix)
                      /\ handle[1] = "@" => url = TwitterPrefix \o Tail(handle)

\* two other profiles and the handle "@x": three URLs, the derived one last
C10_Witness ==
    /\ Returned("buildPersonSchema")
    /\ call.args.sameAs = Some(<<ProfileA, ProfileB>>)
    /\ call.args.twitter = Some(<<"@", "x">>)
    /\ result.sameAs = Some(<<ProfileA, ProfileB, TwitterPrefix \o <<"x">> >>)
    /\ result.url = None

---------------------------------------------------------------------------
(* Claims about results a caller keeps (SpecCaller)                        *)

\* what a caller reads in the kept object h: its own parts, and the
\* module-level objects its icons and verification fields refer to
View(h) ==
    [h EXCEPT !.icons = IF @ = IconsRef THEN CACHED_ICONS ELSE @.val,
              !.verification = IF IsSome(@) THEN Some(verification) ELSE None]

\* the step is a change the caller makes through kept result j
MutatesThrough(j) == call'.op = "mutate" /\ call'.target = j

\* the step is constructMetadata running
CallRuns == pc = "called" /\ pc' = "returned"

\* C8 as stated: the results of two calls share no mutable part, so a change
\* a caller makes to one result changes no other result, and no call writes
\* module-level state.
C8_ResultsShareNothing ==
    [][/\ \A i, j \in 1..Len(held) :
              (i /= j /\ MutatesThrough(j)) => View(held[i])' = View(held[i])
       /\ CallRuns => UNCHANGED moduleState]_vars

\* C8 as the code has it: a call writes no module-level state and changes no
\* result made before; each result has parts of its own (robots among them),
\* and a change to those through one result changes no other result; but
\* the icons field of every result refers to the one module-level list and
\* the verification field, when present, to the one module-level map, so a
\* change to either through one result shows in every result.
C8_OnlyModuleObjectsShared ==
    [][/\ CallRuns =>
              /\ UNCHANGED moduleState
              /\ \A i \in 1..Len(held) : View(held[i])' = View(held[i])
       /\ \A i \in 1..Len(held') :
              /\ held'[i].icons = IconsRef
              /\ IsSome(held'[i].verification)
                     => held'[i].verification = Some(VerificationRef)
       /\ \A i, j \in 1..Len(held) :
              (i /= j /\ MutatesThrough(j) /\ call'.part = "robots")
                  => View(held[i])' = View(held[i])
       /\ \A i, j \in 1..Len(held) :
              (MutatesThrough(j) /\ call'.part = "icons")
                  => View(held[i])'.icons = View(held[j])'.icons
       /\ \A i, j \in 1..Len(held) :
              (MutatesThrough(j) /\ call'.part = "verification"
                   /\ IsSome(held[i].verification))
                  => View(held[i])'.verification = View(held[j])'.verification]_vars

\* the caller pushed an icon through the first of two kept results and the
\* second shows it too
C8_Witness ==
    /\ Len(held) = 2
    /\ call.op = "mutate"
    /\ call.part = "icons"
    /\ call.target = 1
    /\ Len(LoadIcons(appConfig)) = 6
    /\ View(held[2]).icons = LoadIcons(appConfig) \o <<PageIcon>>
    /\ View(held[1]).robots /= View(held[2]).robots

===========================================================================
